---------------------------- MODULE Spec2Model ----------------------------
(***************************************************************************)
(* A model of three parts of irmago:                                       *)
(*   - internal/fs: SaveFile, the write-to-temp-then-rename file writer,   *)
(*                  and PathExists, AssertPathExists and                   *)
(*                  EnsureDirectoryExists;                                 *)
(*   - irmaclient:  LogEntry, its request cache (SessionRequest) and the   *)
(*                  views derived from a log entry, and createLogEntry;    *)
(*   - myirmaserver: TryUserLoginToken of the postgres database.           *)
(* Each part has its own specification (SpecFile and SpecFileConc,         *)
(* SpecPath, SpecLog, SpecToken); the variables of the other parts stay at *)
(* their initial value.                                                    *)
(***************************************************************************)
EXTENDS Integers, Sequences, FiniteSets, TLC

\* internal/fs: the file system, the SaveFile calls, and what each call's
\* target held when the call started
VARIABLES files, call, prior

\* irmaclient: the log entry, the request objects it points to, the result of
\* the last operation, the result of the first SessionRequest() on the entry,
\* the request the entry was created from, and where the entry came from
VARIABLES entry, heap, ret, first, orig, origin

\* internal/fs: the directory tree that PathExists and its companions look
\* at, and the last call of one of them
VARIABLES tree, probe

\* myirmaserver: the rows of irma.email_login_tokens that hold the token, and
\* the TryUserLoginToken calls
VARIABLES tokenRows, login

fsVars == <<files, call, prior>>

logVars == <<entry, heap, ret, first, orig, origin>>

pathVars == <<tree, probe>>

tokenVars == <<tokenRows, login>>

vars == <<files, call, prior, entry, heap, ret, first, orig, origin,
          tree, probe, tokenRows, login>>

(***************************************************************************)
(* Bounds.                                                                 *)
(***************************************************************************)
\* longest payload handed to SaveFile
MaxLen == 2

(***************************************************************************)
(* The file system: a path is <<directory, base name>>, a file is absent   *)
(* or holds a byte sequence.                                               *)
(***************************************************************************)
Bytes == {0, 1}

Payloads == UNION {[1..n -> Bytes] : n \in 0..MaxLen}

Dirs == {"d1"}

\* Base names: "f" is the name of the target file; TempNames are the names
\* hex.EncodeToString(randBytes) can give (16 random bytes: a name that no
\* file of the directory and no other running call bears).
TargetNames == {"f"}

TempNames == {"t1", "t2"}

TargetPaths == Dirs \X TargetNames

AllPaths == Dirs \X (TargetNames \cup TempNames)

Absent == [exists |-> FALSE, data |-> <<>>]

Full(content) == [exists |-> TRUE, data |-> content]

\* Files a target path may hold before the first call.
InitContents == {Absent} \cup {Full(c) : c \in {p \in Payloads : Len(p) <= 1}}

Writers == {1, 2}

\* One SaveFile call: where it stands (pc), its arguments, its locals (n is
\* the number of bytes written so far), the error it returned (err), the step
\* that failed (failed), the number of os.Rename calls it made (renames),
\* whether it has created its temporary file (created), and whether its
\* os.Rename is the latest successful one on its target (last).
IdleCall == [pc |-> "idle", filepath |-> <<"d1", "f">>, content |-> <<>>,
             tempfilename |-> "t1", n |-> 0, err |-> "nil", failed |-> "none",
             renames |-> 0, created |-> FALSE, last |-> FALSE]

\* path.Dir(filepath)
Dir(filepath) == filepath[1]

\* dir + "/" + tempfilename
TempPath(c) == <<Dir(c.filepath), c.tempfilename>>


Running == {"rand", "create", "write", "rename"}

\* SaveFile is called: nothing has happened yet. prior remembers what the
\* target path held when the call started.
SaveFile_Call(p, filepath, content) ==
    /\ call[p].pc \notin Running
    /\ call' = [call EXCEPT ![p] = [IdleCall EXCEPT !.pc = "rand",
                                       !.filepath = filepath, !.content = content]]
    /\ prior' = [prior EXCEPT ![p] = files[filepath]]
    /\ UNCHANGED <<files, logVars, pathVars, tokenVars>>

\* A call that has drawn its temporary name and not yet returned.
Named == {"create", "write", "rename"}

\* A SaveFile that gives every temporary file the same name.
FreshNames_Fixed(c) == {"t1"}

\* Names that rand.Read can give: see TempNames.
FreshNames(c) ==
    {t \in TempNames : /\ ~files[<<Dir(c.filepath), t>>].exists
                       /\ \A q \in Writers : call[q].pc \in Named
                                => TempPath(call[q]) # <<Dir(c.filepath), t>>}

\* rand.Read(randBytes) succeeded; tempfilename := hex.EncodeToString(randBytes)
SaveFile_Rand(p) ==
    /\ call[p].pc = "rand"
    /\ \E t \in FreshNames(call[p]) :
          call' = [call EXCEPT ![p].pc = "create", ![p].tempfilename = t]
    /\ UNCHANGED <<files, prior, logVars, pathVars, tokenVars>>

\* SaveFile after rand.Read returned an error: if err != nil { return }
RandFailed(c) == [c EXCEPT !.pc = "done", !.err = "rand"]

\* rand.Read fails
SaveFile_RandFail(p) ==
    /\ call[p].pc = "rand"
    /\ call' = [call EXCEPT ![p] = RandFailed([call[p] EXCEPT !.failed = "rand"])]
    /\ UNCHANGED <<files, prior, logVars, pathVars, tokenVars>>

\* A SaveFile that writes the content straight to the target path.
WritePath_Target(c) == c.filepath

\* The path ioutil.WriteFile is given.
WritePath(c) == TempPath(c)

\* ioutil.WriteFile, step 1: OpenFile(O_WRONLY|O_CREATE|O_TRUNC, 0600)
WriteFile_Open(p) ==
    /\ call[p].pc = "create"
    /\ files' = [files EXCEPT ![WritePath(call[p])] = Full(<<>>)]
    /\ call' = [call EXCEPT ![p].pc = "write", ![p].n = 0, ![p].created = TRUE]
    /\ UNCHANGED <<prior, logVars, pathVars, tokenVars>>

\* A SaveFile that does not look at the error of ioutil.WriteFile.
WriteFileFailed_Ignored(c) == [c EXCEPT !.pc = "rename"]

\* SaveFile after ioutil.WriteFile returned an error: if err != nil { return }
WriteFileFailed(c) == [c EXCEPT !.pc = "done", !.err = "write"]

\* ioutil.WriteFile: the open fails, nothing is created
WriteFile_OpenFail(p) ==
    /\ call[p].pc = "create"
    /\ call' = [call EXCEPT ![p] = WriteFileFailed([call[p] EXCEPT !.failed = "write"])]
    /\ UNCHANGED <<files, prior, logVars, pathVars, tokenVars>>

\* ioutil.WriteFile, step 2: the bytes reach the file k at a time
WriteFile_Write(p) ==
    /\ call[p].pc = "write"
    /\ \E k \in 1..(Len(call[p].content) - call[p].n) :
          /\ files' = [files EXCEPT ![WritePath(call[p])] =
                          Full(SubSeq(call[p].content, 1, call[p].n + k))]
          /\ call' = [call EXCEPT ![p].n = call[p].n + k]
    /\ UNCHANGED <<prior, logVars, pathVars, tokenVars>>

\* ioutil.WriteFile: a write or the close fails (a short write is an error);
\* what was written stays in the file
WriteFile_Fail(p) ==
    /\ call[p].pc = "write"
    /\ call' = [call EXCEPT ![p] = WriteFileFailed([call[p] EXCEPT !.failed = "write"])]
    /\ UNCHANGED <<files, prior, logVars, pathVars, tokenVars>>

\* ioutil.WriteFile, step 3: everything is written, Close, return nil
WriteFile_Close(p) ==
    /\ call[p].pc = "write"
    /\ call[p].n = Len(call[p].content)
    /\ call' = [call EXCEPT ![p].pc = "rename"]
    /\ UNCHANGED <<files, prior, logVars, pathVars, tokenVars>>

\* A rename that does not replace a file that is already there.
Rename_NoReplace(fs, oldpath, newpath) ==
    IF fs[newpath].exists THEN fs
    ELSE [fs EXCEPT ![newpath] = fs[oldpath], ![oldpath] = Absent]

\* A rename that copies: the old path keeps its file.
Rename_Copy(fs, oldpath, newpath) ==
    [fs EXCEPT ![newpath] = fs[oldpath]]

\* os.Rename(oldpath, newpath) when it succeeds: newpath is replaced in one step
Rename(fs, oldpath, newpath) ==
    [fs EXCEPT ![newpath] = fs[oldpath], ![oldpath] = Absent]

\* return os.Rename(dir+"/"+tempfilename, filepath), succeeding
SaveFile_Rename(p) ==
    /\ call[p].pc = "rename"
    /\ files' = Rename(files, TempPath(call[p]), call[p].filepath)
    /\ call' = [q \in Writers |->
                  IF q = p
                  THEN [call[p] EXCEPT !.pc = "done", !.err = "nil",
                                       !.renames = call[p].renames + 1, !.last = TRUE]
                  ELSE IF call[q].filepath = call[p].filepath
                       THEN [call[q] EXCEPT !.last = FALSE]
                       ELSE call[q]]
    /\ UNCHANGED <<prior, logVars, pathVars, tokenVars>>

\* return os.Rename(...), failing: the file system is as it was
SaveFile_RenameFail(p) ==
    /\ call[p].pc = "rename"
    /\ call' = [call EXCEPT ![p].pc = "done", ![p].err = "rename",
                            ![p].failed = "rename",
                            ![p].renames = call[p].renames + 1]
    /\ UNCHANGED <<files, prior, logVars, pathVars, tokenVars>>

\* The process dies in the middle of SaveFile; the file system stays.
Crash(p) ==
    /\ call[p].pc \in Running
    /\ call' = [call EXCEPT ![p].pc = "crashed"]
    /\ UNCHANGED <<files, prior, logVars, pathVars, tokenVars>>



(***************************************************************************)
(* PathExists, AssertPathExists and EnsureDirectoryExists.                 *)
(*                                                                         *)
(* The paths are a, a/b and a/b/c.  A node of the tree is absent, a file   *)
(* or a directory; a directory can be searched and written ("rwx"), only   *)
(* searched ("r-x") or neither ("---").  The root can always be searched   *)
(* and written.                                                            *)
(***************************************************************************)
Chain == <<"a", "b", "c">>

Probed == {SubSeq(Chain, 1, k) : k \in 1..Len(Chain)}

Perms == {"rwx", "r-x", "---"}

NoNode == [kind |-> "absent", perm |-> "rwx"]

FileNode == [kind |-> "file", perm |-> "rwx"]

DirNode(perm) == [kind |-> "dir", perm |-> perm]

Nodes == {NoNode, FileNode} \cup {DirNode(perm) : perm \in Perms}

Parent(path) == SubSeq(path, 1, Len(path) - 1)

Ancestors(path) == {SubSeq(path, 1, k) : k \in 1..(Len(path) - 1)}

\* A node is there only under directories.
Consistent(t) ==
    \A path \in Probed :
        t[path].kind # "absent" => \A q \in Ancestors(path) : t[q].kind = "dir"

Trees == {t \in [Probed -> Nodes] : Consistent(t)}

\* The error of walking down to the parent of path: the first ancestor that
\* is missing, is no directory or cannot be searched.
WalkErr(t, path) ==
    LET bad == {q \in Ancestors(path) : t[q].kind # "dir" \/ t[q].perm = "---"}
    IN  IF bad = {} THEN "nil"
        ELSE LET q == CHOOSE x \in bad : \A y \in bad : Len(x) <= Len(y)
             IN  IF t[q].kind = "absent" THEN "ENOENT"
                 ELSE IF t[q].kind = "file" THEN "ENOTDIR"
                 ELSE "EACCES"

\* os.Stat(path): its error
Stat(t, path) ==
    IF WalkErr(t, path) # "nil" THEN WalkErr(t, path)
    ELSE IF t[path].kind = "absent" THEN "ENOENT"
    ELSE "nil"

\* An os.IsNotExist that takes every error for "does not exist".
IsNotExist_Any(err) == err # "nil"

\* os.IsNotExist(err)
IsNotExist(err) == err = "ENOENT"

\* PathExists(path)
PathExists(t, path) ==
    LET err == Stat(t, path)
    IN  IF err = "nil" THEN [exist |-> TRUE, err |-> "nil"]
        ELSE IF IsNotExist(err) THEN [exist |-> FALSE, err |-> "nil"]
        ELSE [exist |-> TRUE, err |-> err]

\* AssertPathExists(path): its error
AssertPathExists(t, path) ==
    LET r == PathExists(t, path)
    IN  IF r.err # "nil" THEN r.err
        ELSE IF ~r.exist THEN "does not exist"
        ELSE "nil"

\* os.Mkdir(path, 0700): the parent must be there and writable, the path not
Mkdir(t, path) ==
    LET err == IF WalkErr(t, path) # "nil" THEN WalkErr(t, path)
               ELSE IF t[path].kind # "absent" THEN "EEXIST"
               ELSE IF Len(path) > 1 /\ t[Parent(path)].perm # "rwx" THEN "EACCES"
               ELSE "nil"
    IN  [tree |-> IF err = "nil" THEN [t EXCEPT ![path] = DirNode("rwx")] ELSE t,
         err |-> err]

\* An EnsureDirectoryExists that does not look whether the path exists.
EnsureDirectoryExists_NoLook(t, path) == Mkdir(t, path)

\* EnsureDirectoryExists(path)
EnsureDirectoryExists(t, path) ==
    LET r == PathExists(t, path)
    IN  IF r.err # "nil" THEN [tree |-> t, err |-> r.err]
        ELSE IF r.exist THEN [tree |-> t, err |-> "nil"]
        ELSE Mkdir(t, path)

\* The last call: its result (exist, err), the tree before it (before),
\* whether the call before it was EnsureDirectoryExists on the same path
\* (again) and what that returned (preverr), and whether this call or one of
\* the unbroken row of such calls before it made the directory (made).
NoProbe ==
    [op |-> "none", path |-> <<"a">>, exist |-> FALSE, err |-> "nil",
     before |-> [x \in Probed |-> NoNode], again |-> FALSE, preverr |-> "nil",
     made |-> FALSE]

Do_PathExists ==
    /\ \E path \in Probed :
          LET r == PathExists(tree, path)
          IN  probe' = [NoProbe EXCEPT !.op = "PathExists", !.path = path,
                                       !.exist = r.exist, !.err = r.err,
                                       !.before = tree]
    /\ UNCHANGED <<tree, fsVars, logVars, tokenVars>>

Do_AssertPathExists ==
    /\ \E path \in Probed :
          probe' = [NoProbe EXCEPT !.op = "AssertPathExists", !.path = path,
                                   !.err = AssertPathExists(tree, path),
                                   !.before = tree]
    /\ UNCHANGED <<tree, fsVars, logVars, tokenVars>>

Do_EnsureDirectoryExists ==
    /\ \E path \in Probed :
          LET r == EnsureDirectoryExists(tree, path)
              again == probe.op = "EnsureDirectoryExists" /\ probe.path = path
          IN  /\ tree' = r.tree
              /\ probe' = [NoProbe EXCEPT !.op = "EnsureDirectoryExists",
                                          !.path = path, !.err = r.err,
                                          !.before = tree, !.again = again,
                                          !.preverr = IF again THEN probe.err ELSE "nil",
                                          !.made = \/ r.tree # tree
                                                   \/ again /\ probe.made]
    /\ UNCHANGED <<fsVars, logVars, tokenVars>>

PathIdle ==
    /\ tree = [x \in Probed |-> NoNode]
    /\ probe = NoProbe

(***************************************************************************)
(* myirmaPostgresDB.TryUserLoginToken.                                     *)
(*                                                                         *)
(* The database holds the rows of irma.email_login_tokens that bear the    *)
(* token (each with its email, and expired or not); irma.users and         *)
(* irma.emails are fixed: each email belongs to one user.  Each caller     *)
(* calls TryUserLoginToken(token, username) once; the statements of the    *)
(* calls interleave in every way.                                          *)
(***************************************************************************)
Users == {"u1", "u2"}

Emails == {"e1", "e2"}

\* irma.users joined with irma.emails
EmailOwner == [e \in Emails |-> IF e = "e1" THEN "u1" ELSE "u2"]

TokenRowSpace == [email : Emails, expired : BOOLEAN]

Callers == {1, 2, 3}

\* One TryUserLoginToken call: where it stands, its username argument, the
\* rows the DELETE affected, and what it returned.
IdleLogin ==
    [pc |-> "idle", username |-> "u1", aff |-> 0, val |-> FALSE, err |-> "nil"]

TryUserLoginToken_Call(c) ==
    /\ login[c].pc = "idle"
    /\ \E username \in Users :
          login' = [login EXCEPT ![c].pc = "select", ![c].username = username]
    /\ UNCHANGED <<tokenRows, fsVars, logVars, pathVars>>

\* The emails the subquery SELECT email FROM irma.email_login_tokens WHERE
\* token = $2 AND expiry >= $3 gives.
LiveEmails == {r.email : r \in {x \in tokenRows : ~x.expired}}

\* db.db.Query(SELECT 1 FROM irma.users INNER JOIN irma.emails ...): a
\* subquery with more than one row is an error; no row is ErrUserNotFound.
TryUserLoginToken_Select(c) ==
    /\ login[c].pc = "select"
    /\ login' =
          IF Cardinality(LiveEmails) > 1
          THEN [login EXCEPT ![c].pc = "done", ![c].err = "query"]
          ELSE IF \E e \in LiveEmails : EmailOwner[e] = login[c].username
               THEN [login EXCEPT ![c].pc = "delete"]
               ELSE [login EXCEPT ![c].pc = "done", ![c].err = "ErrUserNotFound"]
    /\ UNCHANGED <<tokenRows, fsVars, logVars, pathVars>>

\* db.db.Query fails
TryUserLoginToken_SelectFail(c) ==
    /\ login[c].pc = "select"
    /\ login' = [login EXCEPT ![c].pc = "done", ![c].err = "query"]
    /\ UNCHANGED <<tokenRows, fsVars, logVars, pathVars>>

\* A TryUserLoginToken that does not look at the number of deleted rows.
LoginResult_AnyAff(aff) == TRUE

\* if aff != 1 { return false, nil }; return true, nil
LoginResult(aff) == aff = 1

\* db.db.Exec(DELETE FROM irma.email_login_tokens WHERE token = $1) and
\* delres.RowsAffected()
TryUserLoginToken_Delete(c) ==
    /\ login[c].pc = "delete"
    /\ tokenRows' = {}
    /\ login' = [login EXCEPT ![c].pc = "done", ![c].aff = Cardinality(tokenRows),
                              ![c].val = LoginResult(Cardinality(tokenRows))]
    /\ UNCHANGED <<fsVars, logVars, pathVars>>

\* db.db.Exec or delres.RowsAffected fails; the rows may be deleted all the
\* same (the statement ran and its result was lost)
TryUserLoginToken_DeleteFail(c) ==
    /\ login[c].pc = "delete"
    /\ tokenRows' \in {tokenRows, {}}
    /\ login' = [login EXCEPT ![c].pc = "done", ![c].err = "exec"]
    /\ UNCHANGED <<fsVars, logVars, pathVars>>

\* Time passes: a row's expiry is reached.
Expire ==
    /\ \E r \in tokenRows :
          /\ ~r.expired
          /\ tokenRows' = (tokenRows \ {r}) \cup {[r EXCEPT !.expired = TRUE]}
    /\ UNCHANGED <<login, fsVars, logVars, pathVars>>

TokenIdle ==
    /\ tokenRows = {}
    /\ login = [c \in Callers |-> IdleLogin]

(***************************************************************************)
(* Session requests and their JSON form.                                   *)
(*                                                                         *)
(* A request object is one of irma.DisclosureRequest, irma.SignatureRequest*)
(* and irma.IssuanceRequest; the model keeps the fields the log entry      *)
(* reads.  Lists hold numbers 1 and 2; nonce and context are 0 (a nil      *)
(* *big.Int), 1 or 2; timestamp is 0 (nil) or 1 and is not part of the     *)
(* JSON form.  A JSON document is a sequence of tokens.                    *)
(***************************************************************************)
\* longest list of disjunctions of a request
MaxDisj == 2

Shapes == {"DisclosureRequest", "SignatureRequest", "IssuanceRequest"}

Elems == {1, 2}

Nums == {0, 1, 2}

Messages == {"", "m"}

Timestamps == {0, 1}

Lists == UNION {[1..n -> Elems] : n \in 0..MaxDisj}

CredLists == {<<>>, <<1>>}

\* &irma.DisclosureRequest{}, &irma.SignatureRequest{}, &irma.IssuanceRequest{}
ZeroRequest(shape) ==
    [shape |-> shape, content |-> <<>>, disclose |-> <<>>, credentials |-> <<>>,
     nonce |-> 0, context |-> 0, message |-> "", timestamp |-> 0]

DisclosureRequests ==
    {[ZeroRequest("DisclosureRequest") EXCEPT !.content = c, !.nonce = n, !.context = x] :
        c \in Lists, n \in Nums \ {0}, x \in Nums \ {0}}

SignatureRequests ==
    {[ZeroRequest("SignatureRequest") EXCEPT !.content = c[1], !.nonce = c[2],
                                             !.context = c[3], !.message = m, !.timestamp = t] :
        c \in Lists \X (Nums \ {0}) \X (Nums \ {0}), m \in Messages, t \in Timestamps}

IssuanceRequests ==
    {[ZeroRequest("IssuanceRequest") EXCEPT !.credentials = k, !.disclose = c[1],
                                            !.nonce = c[2], !.context = c[3]] :
        c \in Lists \X (Nums \ {0}) \X (Nums \ {0}), k \in CredLists}

Requests == DisclosureRequests \cup SignatureRequests \cup IssuanceRequests

\* SessionRequest.ToDisclose(): the disjunctions a request asks to disclose
ToDisclose(r) == IF r.shape = "IssuanceRequest" THEN r.disclose ELSE r.content

\* The JSON members of each request type.
FieldsOf(shape) ==
    CASE shape = "DisclosureRequest" -> <<"content", "nonce", "context">>
      [] shape = "SignatureRequest"  -> <<"content", "nonce", "context", "message">>
      [] shape = "IssuanceRequest"   -> <<"credentials", "disclose", "nonce", "context">>

ListFields == {"content", "disclose", "credentials"}

NumFields == {"nonce", "context"}

KeyToks == ListFields \cup NumFields \cup {"message", "other"}

NumToks == {"1", "2"}

StrToks == {"s:", "s:m"}

NumTok(n) == CASE n = 0 -> "null" [] n = 1 -> "1" [] n = 2 -> "2"

NumVal(tok) == CASE tok = "null" -> 0 [] tok = "1" -> 1 [] tok = "2" -> 2

StrTok(m) == CASE m = "" -> "s:" [] m = "m" -> "s:m"

StrVal(tok) == CASE tok = "s:" -> "" [] tok = "s:m" -> "m"

\* The tokens of one member of a request, as json.Marshal writes it.
EncodeField(r, key) ==
    CASE key \in ListFields ->
           <<key, "[">> \o [i \in 1..Len(r[key]) |-> NumTok(r[key][i])] \o <<"]">>
      [] key \in NumFields -> <<key, NumTok(r[key])>>
      [] key = "message"   -> <<key, StrTok(r.message)>>

RECURSIVE EncodeFields(_, _)
EncodeFields(r, keys) ==
    IF keys = <<>> THEN <<>>
    ELSE EncodeField(r, Head(keys)) \o EncodeFields(r, Tail(keys))

\* json.Marshal of a request object: its members in the order of the struct
Encode(r) == <<"{">> \o EncodeFields(r, FieldsOf(r.shape)) \o <<"}">>

Bad == [ok |-> FALSE, ms |-> <<>>]

ScalarKind(tok) ==
    IF tok \in NumToks THEN "num"
    ELSE IF tok \in StrToks THEN "str"
    ELSE IF tok = "null" THEN "null"
    ELSE "none"

\* The position of the "]" that closes a list of numbers starting at i; 0 if none.
ListEnd(t, i) ==
    LET js == {j \in i..Len(t) : t[j] = "]" /\ \A k \in i..(j - 1) : t[k] \in NumToks}
    IN  IF js = {} THEN 0 ELSE CHOOSE j \in js : TRUE

RECURSIVE Members(_, _)
\* The members of an object from token i on, up to the closing brace that
\* must end the document.
Members(t, i) ==
    IF i > Len(t) THEN Bad
    ELSE IF t[i] = "}" THEN (IF i = Len(t) THEN [ok |-> TRUE, ms |-> <<>>] ELSE Bad)
    ELSE IF t[i] \notin KeyToks \/ i + 1 > Len(t) THEN Bad
    ELSE IF ScalarKind(t[i + 1]) # "none" THEN
        LET rest == Members(t, i + 2)
        IN  IF rest.ok
            THEN [ok |-> TRUE,
                  ms |-> <<[key |-> t[i], kind |-> ScalarKind(t[i + 1]),
                            toks |-> <<t[i + 1]>>]>> \o rest.ms]
            ELSE Bad
    ELSE IF t[i + 1] = "[" /\ ListEnd(t, i + 2) # 0 THEN
        LET e == ListEnd(t, i + 2)
            rest == Members(t, e + 1)
        IN  IF rest.ok
            THEN [ok |-> TRUE,
                  ms |-> <<[key |-> t[i], kind |-> "list",
                            toks |-> SubSeq(t, i + 2, e - 1)]>> \o rest.ms]
            ELSE Bad
    ELSE Bad

\* The syntax check json.Unmarshal makes before it stores anything.
Parse(t) ==
    IF t = <<"null">> THEN [ok |-> TRUE, ms |-> <<>>]
    ELSE IF Len(t) >= 1 /\ t[1] = "{" THEN Members(t, 2)
    ELSE Bad

\* One member stored into the object r: a member r does not have is skipped, a
\* value of the wrong type is skipped and reported.
Store(r, m) ==
    IF \A i \in 1..Len(FieldsOf(r.shape)) : FieldsOf(r.shape)[i] # m.key
    THEN [obj |-> r, err |-> FALSE]
    ELSE IF m.key \in ListFields THEN
        (IF m.kind = "list"
         THEN [obj |-> [r EXCEPT ![m.key] = [i \in 1..Len(m.toks) |-> NumVal(m.toks[i])]],
               err |-> FALSE]
         ELSE IF m.kind = "null" THEN [obj |-> [r EXCEPT ![m.key] = <<>>], err |-> FALSE]
         ELSE [obj |-> r, err |-> TRUE])
    ELSE IF m.key \in NumFields THEN
        (IF m.kind \in {"num", "null"}
         THEN [obj |-> [r EXCEPT ![m.key] = NumVal(m.toks[1])], err |-> FALSE]
         ELSE [obj |-> r, err |-> TRUE])
    ELSE
        (IF m.kind = "str"
         THEN [obj |-> [r EXCEPT !.message = StrVal(m.toks[1])], err |-> FALSE]
         ELSE IF m.kind = "null" THEN [obj |-> r, err |-> FALSE]
         ELSE [obj |-> r, err |-> TRUE])

RECURSIVE StoreAll(_, _, _)
StoreAll(r, ms, failed) ==
    IF ms = <<>> THEN [obj |-> r, err |-> IF failed THEN "type" ELSE "nil"]
    ELSE LET s == Store(r, Head(ms))
         IN  StoreAll(s.obj, Tail(ms), failed \/ s.err)

\* json.Unmarshal(data, r) for a non-nil request pointer r: a document that
\* does not parse leaves r alone; otherwise the members are stored one by one
\* into what r already holds, and the first type error is returned at the end.
Unmarshal(data, r) ==
    LET p == Parse(data)
    IN  IF ~p.ok THEN [obj |-> r, err |-> "syntax"] ELSE StoreAll(r, p.ms, FALSE)


(***************************************************************************)
(* Log entries.                                                            *)
(***************************************************************************)
ActionDisclosing == "disclosing"

ActionSigning == "signing"

ActionIssuing == "issuing"

ActionUnknown == "unknown"

actionRemoval == "removal"

Actions == {ActionDisclosing, ActionSigning, ActionIssuing, actionRemoval, ActionUnknown}

\* irma.SignedMessageLDContext
SignedMessageLDContext == "ld-context"

\* []byte(s) and string(b)
BytesOf(s) == CASE s = "" -> <<>> [] s = "m" -> <<109>>

StringOf(b) == CASE b = <<>> -> "" [] b = <<109>> -> "m"

\* A *irma.Disclosure or *irma.IssueCommitmentMessage: nil, or proofs that
\* verify (1) or do not (0).
NilPtr == [nil |-> TRUE, Proofs |-> 0]

Ptr(proofs) == [nil |-> FALSE, Proofs |-> proofs]

\* The response handed to createLogEntry (an interface{}).
Responses ==
    {[type |-> "nil", Proofs |-> 0]}
    \cup {[type |-> t, Proofs |-> p] : t \in {"Disclosure", "IssueCommitmentMessage"},
                                       p \in {0, 1}}

\* The LogEntry struct. request is the address of the cached request in heap,
\* 0 for nil. Time is left out: nothing reads it.
ZeroEntry ==
    [Type |-> ActionUnknown, Version |-> 0, Request |-> <<>>, request |-> 0,
     Removed |-> 0, SignedMessage |-> <<>>, Timestamp |-> 0,
     SignedMessageLDContext |-> "", IssueCommitment |-> NilPtr, Disclosure |-> NilPtr]

\* The switch of SessionRequest: the request type a kind of entry has, ""
\* for a kind that has none (default: return nil, nil).
RequestFor(type) ==
    CASE type = ActionDisclosing -> "DisclosureRequest"
      [] type = ActionSigning    -> "SignatureRequest"
      [] type = ActionIssuing    -> "IssuanceRequest"
      [] OTHER                   -> ""

\* A SessionRequest() that never finds a cached request.
SessionRequest_NoCache(e, h) ==
    IF RequestFor(e.Type) = ""
    THEN [entry |-> e, heap |-> h, req |-> 0, err |-> "nil", decoded |-> FALSE,
          called |-> TRUE]
    ELSE
        LET e1 == [e EXCEPT !.request = Len(h) + 1]
            h1 == Append(h, ZeroRequest(RequestFor(e.Type)))
            u  == Unmarshal(e1.Request, h1[e1.request])
        IN  [entry |-> e1,
             heap |-> [h1 EXCEPT ![e1.request] = u.obj],
             req |-> IF u.err = "nil" THEN e1.request ELSE 0,
             err |-> u.err,
             decoded |-> TRUE,
             called |-> TRUE]

\* LogEntry.SessionRequest(): the entry and the heap after the call, the
\* request returned (req, an address, 0 for nil) and the error; decoded says
\* whether json.Unmarshal was called.
SessionRequest(e, h) ==
    IF e.request = 0 /\ RequestFor(e.Type) = ""
    THEN [entry |-> e, heap |-> h, req |-> 0, err |-> "nil", decoded |-> FALSE,
          called |-> TRUE]
    ELSE
        LET e1 == IF e.request = 0 THEN [e EXCEPT !.request = Len(h) + 1] ELSE e
            h1 == IF e.request = 0 THEN Append(h, ZeroRequest(RequestFor(e.Type))) ELSE h
            u  == Unmarshal(e1.Request, h1[e1.request])
        IN  [entry |-> e1,
             heap |-> [h1 EXCEPT ![e1.request] = u.obj],
             req |-> IF u.err = "nil" THEN e1.request ELSE 0,
             err |-> u.err,
             decoded |-> TRUE,
             called |-> TRUE]

\* A setSessionRequest() that forgets to store the bytes.
setSessionRequest_Forgets(e, h, marshalErr) ==
    IF marshalErr THEN [entry |-> e, err |-> "marshal"]
    ELSE [entry |-> e, err |-> "nil"]

\* LogEntry.setSessionRequest(): marshalErr is json.Marshal failing.
setSessionRequest(e, h, marshalErr) ==
    IF marshalErr THEN [entry |-> e, err |-> "marshal"]
    ELSE [entry |-> [e EXCEPT !.Request =
                        IF e.request = 0 THEN <<"null">> ELSE Encode(h[e.request])],
          err |-> "nil"]

\* Disclosure.DisclosedAttributes(conf, disjunctions): one attribute for each
\* disjunction, or the verification error.
DisclosedAttributes(disclosure, disjunctions) ==
    IF disclosure.nil THEN [list |-> <<>>, err |-> "panic"]
    ELSE IF disclosure.Proofs = 0 THEN [list |-> <<>>, err |-> "verify"]
    ELSE [list |-> disjunctions, err |-> "nil"]

\* What a view returns (list or signed, and err), the entry and the heap it
\* leaves, and the SessionRequest() call it made, if any.
View(s, list, signed, err) ==
    [entry |-> s.entry, heap |-> s.heap, list |-> list, signed |-> signed, err |-> err,
     called |-> s.called, sreq |-> s.req, serr |-> s.err]

\* A view that returns before it calls SessionRequest().
NotCalled(e, h) ==
    [entry |-> e, heap |-> h, req |-> 0, err |-> "nil", decoded |-> FALSE,
     called |-> FALSE]

NoSigned ==
    [present |-> FALSE, LDContext |-> "", Signature |-> 0, Nonce |-> 0, Context |-> 0,
     Message |-> "", Timestamp |-> 0]

\* A GetDisclosedCredentials without the test for a removal.
GetDisclosedCredentials_NoRemovalTest(e, h) ==
    LET s == SessionRequest(e, h)
    IN  IF s.err # "nil" THEN View(s, <<>>, NoSigned, s.err)
        ELSE IF s.req = 0 THEN View(s, <<>>, NoSigned, "panic")
        ELSE IF s.entry.Type = ActionIssuing /\ s.entry.IssueCommitment.nil
             THEN View(s, <<>>, NoSigned, "panic")
        ELSE
            LET disclosure == IF s.entry.Type = ActionIssuing
                              THEN Ptr(s.entry.IssueCommitment.Proofs)
                              ELSE s.entry.Disclosure
                d == DisclosedAttributes(disclosure, ToDisclose(s.heap[s.req]))
            IN  View(s, d.list, NoSigned, d.err)

\* LogEntry.GetDisclosedCredentials(conf)
GetDisclosedCredentials(e, h) ==
    IF e.Type = actionRemoval
    THEN View(NotCalled(e, h), <<>>, NoSigned, "nil")
    ELSE
        LET s == SessionRequest(e, h)
        IN  IF s.err # "nil" THEN View(s, <<>>, NoSigned, s.err)
            \* request.ToDisclose() on a nil request
            ELSE IF s.req = 0 THEN View(s, <<>>, NoSigned, "panic")
            \* entry.IssueCommitment.Disclosure() on a nil IssueCommitment
            ELSE IF s.entry.Type = ActionIssuing /\ s.entry.IssueCommitment.nil
                 THEN View(s, <<>>, NoSigned, "panic")
            ELSE
                LET disclosure == IF s.entry.Type = ActionIssuing
                                  THEN Ptr(s.entry.IssueCommitment.Proofs)
                                  ELSE s.entry.Disclosure
                    d == DisclosedAttributes(disclosure, ToDisclose(s.heap[s.req]))
                IN  View(s, d.list, NoSigned, d.err)

\* LogEntry.GetIssuedCredentials(conf)
GetIssuedCredentials(e, h) ==
    IF e.Type # ActionIssuing
    THEN View(NotCalled(e, h), <<>>, NoSigned, "nil")
    ELSE
        LET s == SessionRequest(e, h)
        IN  IF s.err # "nil" THEN View(s, <<>>, NoSigned, s.err)
            \* request.(*irma.IssuanceRequest)
            ELSE IF s.req = 0 \/ s.heap[s.req].shape # "IssuanceRequest"
                 THEN View(s, <<>>, NoSigned, "panic")
            \* GetCredentialInfoList(conf, entry.Version)
            ELSE View(s, s.heap[s.req].credentials, NoSigned, "nil")

\* A GetSignedMessage that takes the nonce for the context and the context
\* for the nonce.
GetSignedMessage_Swapped(e, h) ==
    IF e.Type # ActionSigning
    THEN View(NotCalled(e, h), <<>>, NoSigned, "nil")
    ELSE
        LET s == SessionRequest(e, h)
        IN  IF s.err # "nil" THEN View(s, <<>>, NoSigned, s.err)
            ELSE IF s.req = 0 \/ s.heap[s.req].shape # "SignatureRequest"
                    \/ s.entry.Disclosure.nil
                 THEN View(s, <<>>, NoSigned, "panic")
            ELSE View(s, <<>>,
                      [present |-> TRUE,
                       LDContext |-> s.entry.SignedMessageLDContext,
                       Signature |-> s.entry.Disclosure.Proofs,
                       Nonce |-> s.heap[s.req].context,
                       Context |-> s.heap[s.req].nonce,
                       Message |-> StringOf(s.entry.SignedMessage),
                       Timestamp |-> s.entry.Timestamp],
                      "nil")

\* LogEntry.GetSignedMessage()
GetSignedMessage(e, h) ==
    IF e.Type # ActionSigning
    THEN View(NotCalled(e, h), <<>>, NoSigned, "nil")
    ELSE
        LET s == SessionRequest(e, h)
        IN  IF s.err # "nil" THEN View(s, <<>>, NoSigned, s.err)
            \* request.(*irma.SignatureRequest), entry.Disclosure.Proofs
            ELSE IF s.req = 0 \/ s.heap[s.req].shape # "SignatureRequest"
                    \/ s.entry.Disclosure.nil
                 THEN View(s, <<>>, NoSigned, "panic")
            ELSE View(s, <<>>,
                      [present |-> TRUE,
                       LDContext |-> s.entry.SignedMessageLDContext,
                       Signature |-> s.entry.Disclosure.Proofs,
                       Nonce |-> s.heap[s.req].nonce,
                       Context |-> s.heap[s.req].context,
                       Message |-> StringOf(s.entry.SignedMessage),
                       Timestamp |-> s.entry.Timestamp],
                      "nil")

\* A createLogEntry whose switch has no default case.
createLogEntry_NoDefault(session, h, response, marshalErr) ==
    LET action == session.Action
        request == session.request
        e0 == [ZeroEntry EXCEPT !.Type = action, !.Version = session.Version,
                                !.request = request]
        m  == setSessionRequest(e0, h, marshalErr)
        e1 == m.entry
        signed == [e1 EXCEPT !.SignedMessage = BytesOf(h[request].message),
                             !.Timestamp = h[request].timestamp,
                             !.SignedMessageLDContext = SignedMessageLDContext]
    IN  IF m.err # "nil" THEN [entry |-> ZeroEntry, err |-> m.err]
        ELSE IF action = ActionSigning THEN
            (IF request = 0 \/ h[request].shape # "SignatureRequest"
                \/ response.type # "Disclosure"
             THEN [entry |-> ZeroEntry, err |-> "panic"]
             ELSE [entry |-> [signed EXCEPT !.Disclosure = Ptr(response.Proofs)],
                   err |-> "nil"])
        ELSE IF action = ActionDisclosing THEN
            (IF response.type # "Disclosure"
             THEN [entry |-> ZeroEntry, err |-> "panic"]
             ELSE [entry |-> [e1 EXCEPT !.Disclosure = Ptr(response.Proofs)],
                   err |-> "nil"])
        ELSE IF action = ActionIssuing THEN
            (IF response.type # "IssueCommitmentMessage"
             THEN [entry |-> ZeroEntry, err |-> "panic"]
             ELSE [entry |-> [e1 EXCEPT !.IssueCommitment = Ptr(response.Proofs)],
                   err |-> "nil"])
        ELSE [entry |-> e1, err |-> "nil"]

\* session.createLogEntry(response), for a session with the given Action and
\* request (an address in h, 0 for nil); "panic" is a failed type assertion.
createLogEntry(session, h, response, marshalErr) ==
    LET action == session.Action
        request == session.request
        e0 == [ZeroEntry EXCEPT !.Type = action, !.Version = session.Version,
                                !.request = request]
        m  == setSessionRequest(e0, h, marshalErr)
        e1 == m.entry
        signed == [e1 EXCEPT !.SignedMessage = BytesOf(h[request].message),
                             !.Timestamp = h[request].timestamp,
                             !.SignedMessageLDContext = SignedMessageLDContext]
    IN  IF m.err # "nil" THEN [entry |-> ZeroEntry, err |-> m.err]
        ELSE IF action = actionRemoval THEN [entry |-> e1, err |-> "nil"]
        ELSE IF action = ActionSigning THEN
            (IF request = 0 \/ h[request].shape # "SignatureRequest"
                \/ response.type # "Disclosure"
             THEN [entry |-> ZeroEntry, err |-> "panic"]
             ELSE [entry |-> [signed EXCEPT !.Disclosure = Ptr(response.Proofs)],
                   err |-> "nil"])
        ELSE IF action = ActionDisclosing THEN
            (IF response.type # "Disclosure"
             THEN [entry |-> ZeroEntry, err |-> "panic"]
             ELSE [entry |-> [e1 EXCEPT !.Disclosure = Ptr(response.Proofs)],
                   err |-> "nil"])
        ELSE IF action = ActionIssuing THEN
            (IF response.type # "IssueCommitmentMessage"
             THEN [entry |-> ZeroEntry, err |-> "panic"]
             ELSE [entry |-> [e1 EXCEPT !.IssueCommitment = Ptr(response.Proofs)],
                   err |-> "nil"])
        ELSE [entry |-> ZeroEntry, err |-> "invalid"]


(***************************************************************************)
(* The log entry's state machine: an entry is read from storage (Init) or  *)
(* made by createLogEntry, then SessionRequest() and the views are called  *)
(* on it in any order.                                                     *)
(***************************************************************************)
Versions == {1}

d1 == [ZeroRequest("DisclosureRequest") EXCEPT !.content = <<1, 2>>, !.nonce = 1,
                                               !.context = 2]

s1 == [ZeroRequest("SignatureRequest") EXCEPT !.content = <<2>>, !.nonce = 2,
                                              !.context = 1, !.message = "m"]

i1 == [ZeroRequest("IssuanceRequest") EXCEPT !.credentials = <<1>>, !.disclose = <<1>>,
                                             !.nonce = 1, !.context = 1]

\* The Request bytes an entry read from storage may hold: none, null, the
\* JSON of a request, JSON with the members in another order and an unknown
\* member, JSON with a value of the wrong type, and text that is not JSON.
RawMessages ==
    {<<>>, <<"null">>, <<"{", "}">>, <<"{">>,
     Encode(d1), Encode(s1), Encode(i1),
     <<"{", "nonce", "1", "other", "s:m", "content", "[", "2", "]", "}">>,
     <<"{", "content", "[", "1", "]", "nonce", "s:m", "}">>,
     <<"{", "content", "[", "1", "}">>}

\* The type-specific fields an entry read from storage may hold.
StoredPayloads ==
    {ZeroEntry,
     [ZeroEntry EXCEPT !.Disclosure = Ptr(1)],
     [ZeroEntry EXCEPT !.Disclosure = Ptr(0)],
     [ZeroEntry EXCEPT !.Disclosure = Ptr(1), !.SignedMessage = <<109>>,
                       !.Timestamp = 1, !.SignedMessageLDContext = SignedMessageLDContext],
     [ZeroEntry EXCEPT !.IssueCommitment = Ptr(1)],
     [ZeroEntry EXCEPT !.Removed = 1],
     [ZeroEntry EXCEPT !.Removed = 1, !.Disclosure = Ptr(1), !.SignedMessage = <<109>>,
                       !.Timestamp = 1, !.SignedMessageLDContext = SignedMessageLDContext,
                       !.IssueCommitment = Ptr(1)]}

StoredEntries ==
    {[e EXCEPT !.Type = t, !.Version = 1, !.Request = r] :
        e \in StoredPayloads, t \in Actions, r \in RawMessages}

\* The result of the last operation; kind is the Action of the session that
\* createLogEntry was called on.
NoRet ==
    [op |-> "none", err |-> "nil", req |-> 0, list |-> <<>>, signed |-> NoSigned,
     hit |-> FALSE, decoded |-> FALSE, modified |-> FALSE, kind |-> ""]

NoFirst == [called |-> FALSE, err |-> "nil", req |-> 0]

NoOrig ==
    [valid |-> FALSE, nilreq |-> TRUE, req |-> ZeroRequest("DisclosureRequest"),
     response |-> [type |-> "nil", Proofs |-> 0]]

\* The (kind, request, response) combinations createLogEntry is meant for.
ValidCombination(action, nilreq, r, response) ==
    \/ action = ActionDisclosing /\ ~nilreq /\ r.shape = "DisclosureRequest"
          /\ response.type = "Disclosure"
    \/ action = ActionSigning /\ ~nilreq /\ r.shape = "SignatureRequest"
          /\ response.type = "Disclosure"
    \/ action = ActionIssuing /\ ~nilreq /\ r.shape = "IssuanceRequest"
          /\ response.type = "IssueCommitmentMessage"
    \/ action = actionRemoval /\ nilreq /\ response.type = "nil"

\* first keeps the result of the first SessionRequest() call on the entry.
NoteFirst(called, req, err) ==
    IF first.called \/ ~called THEN first
    ELSE [called |-> TRUE, err |-> err, req |-> req]

Do_createLogEntry ==
    /\ origin = "none"
    /\ \E action \in Actions, nilreq \in BOOLEAN, r \in Requests,
          response \in Responses, marshalErr \in BOOLEAN, version \in Versions :
          LET h == IF nilreq THEN <<>> ELSE <<r>>
              session == [Action |-> action, request |-> IF nilreq THEN 0 ELSE 1,
                          Version |-> version]
              c == createLogEntry(session, h, response, marshalErr)
          IN  /\ nilreq => r = d1
              /\ entry' = c.entry
              /\ heap' = IF c.err = "nil" THEN h ELSE <<>>
              /\ origin' = IF c.err = "nil" THEN "created" ELSE "none"
              /\ orig' = IF c.err = "nil"
                         THEN [valid |-> ValidCombination(action, nilreq, r, response),
                               nilreq |-> nilreq,
                               req |-> IF nilreq THEN NoOrig.req ELSE r,
                               response |-> response]
                         ELSE NoOrig
              /\ ret' = [NoRet EXCEPT !.op = "createLogEntry", !.err = c.err,
                                      !.kind = action]
    /\ UNCHANGED <<first, fsVars, pathVars, tokenVars>>

Do_SessionRequest ==
    /\ origin # "none"
    /\ LET s == SessionRequest(entry, heap)
       IN  /\ entry' = s.entry
           /\ heap' = s.heap
           /\ first' = NoteFirst(TRUE, s.req, s.err)
           /\ ret' = [NoRet EXCEPT !.op = "SessionRequest", !.err = s.err, !.req = s.req,
                                   !.hit = (entry.request # 0),
                                   !.decoded = s.decoded,
                                   !.modified = (entry.request # 0
                                                 /\ s.heap[entry.request] # heap[entry.request])]
    /\ UNCHANGED <<orig, origin, fsVars, pathVars, tokenVars>>

\* A view is called and returns v.
Viewed(op, v) ==
    /\ origin # "none"
    /\ entry' = v.entry
    /\ heap' = v.heap
    /\ first' = NoteFirst(v.called, v.sreq, v.serr)
    /\ ret' = [NoRet EXCEPT !.op = op, !.err = v.err, !.list = v.list, !.signed = v.signed]
    /\ UNCHANGED <<orig, origin, fsVars, pathVars, tokenVars>>

Do_GetDisclosedCredentials ==
    Viewed("GetDisclosedCredentials", GetDisclosedCredentials(entry, heap))

Do_GetIssuedCredentials ==
    Viewed("GetIssuedCredentials", GetIssuedCredentials(entry, heap))

Do_GetSignedMessage ==
    Viewed("GetSignedMessage", GetSignedMessage(entry, heap))

FileIdle ==
    /\ files = [x \in AllPaths |-> Absent]
    /\ call = [p \in Writers |-> IdleCall]
    /\ prior = [p \in Writers |-> Absent]

InitLog ==
    /\ FileIdle
    /\ PathIdle
    /\ TokenIdle
    /\ origin \in {"none", "stored"}
    /\ entry \in IF origin = "stored" THEN StoredEntries ELSE {ZeroEntry}
    /\ heap = <<>>
    /\ ret = NoRet
    /\ first = NoFirst
    /\ orig = NoOrig

NextLog ==
    \/ Do_createLogEntry
    \/ Do_SessionRequest
    \/ Do_GetDisclosedCredentials
    \/ Do_GetIssuedCredentials
    \/ Do_GetSignedMessage

SpecLog == InitLog /\ [][NextLog]_vars

(***************************************************************************)
(* The file writer's state machine: SaveFile is called again and again by  *)
(* one caller; a call can fail at each step and the process can die at     *)
(* each step.                                                              *)
(***************************************************************************)
LogIdle ==
    /\ entry = ZeroEntry
    /\ heap = <<>>
    /\ ret = NoRet
    /\ first = NoFirst
    /\ orig = NoOrig
    /\ origin = "none"

InitFile ==
    /\ LogIdle
    /\ PathIdle
    /\ TokenIdle
    /\ files \in {f \in [AllPaths -> InitContents] :
                     \A x \in AllPaths : x[2] \in TempNames => f[x] = Absent}
    /\ call = [p \in Writers |-> IdleCall]
    /\ prior = [p \in Writers |-> Absent]

\* One caller at a time: writer 1 calls SaveFile again and again.
NextFile ==
    \E p \in {1} :
        \/ \E filepath \in TargetPaths, content \in Payloads :
               SaveFile_Call(p, filepath, content)
        \/ SaveFile_Rand(p)
        \/ SaveFile_RandFail(p)
        \/ WriteFile_Open(p)
        \/ WriteFile_OpenFail(p)
        \/ WriteFile_Write(p)
        \/ WriteFile_Fail(p)
        \/ WriteFile_Close(p)
        \/ SaveFile_Rename(p)
        \/ SaveFile_RenameFail(p)
        \/ Crash(p)

SpecFile == InitFile /\ [][NextFile]_vars

(***************************************************************************)
(* Concurrent SaveFile calls: each writer calls SaveFile once, and the     *)
(* steps of the two calls interleave in every way.                         *)
(***************************************************************************)
NextFileConc ==
    \E p \in Writers :
        \/ /\ call[p].pc = "idle"
           /\ \E filepath \in TargetPaths, content \in Payloads :
                  SaveFile_Call(p, filepath, content)
        \/ SaveFile_Rand(p)
        \/ SaveFile_RandFail(p)
        \/ WriteFile_Open(p)
        \/ WriteFile_OpenFail(p)
        \/ WriteFile_Write(p)
        \/ WriteFile_Fail(p)
        \/ WriteFile_Close(p)
        \/ SaveFile_Rename(p)
        \/ SaveFile_RenameFail(p)
        \/ Crash(p)

SpecFileConc == InitFile /\ [][NextFileConc]_vars

(***************************************************************************)
(* PathExists and its companions are called in any order, on any of the    *)
(* paths, over any tree.                                                   *)
(***************************************************************************)
InitPath ==
    /\ FileIdle
    /\ LogIdle
    /\ TokenIdle
    /\ tree \in Trees
    /\ probe = NoProbe

NextPath ==
    \/ Do_PathExists
    \/ Do_AssertPathExists
    \/ Do_EnsureDirectoryExists

SpecPath == InitPath /\ [][NextPath]_vars

(***************************************************************************)
(* TryUserLoginToken is called by every caller with the same token, over   *)
(* any rows of the token table.                                            *)
(***************************************************************************)
InitToken ==
    /\ FileIdle
    /\ LogIdle
    /\ PathIdle
    /\ tokenRows \in SUBSET TokenRowSpace
    /\ login = [c \in Callers |-> IdleLogin]

NextToken ==
    \/ \E c \in Callers :
           \/ TryUserLoginToken_Call(c)
           \/ TryUserLoginToken_Select(c)
           \/ TryUserLoginToken_SelectFail(c)
           \/ TryUserLoginToken_Delete(c)
           \/ TryUserLoginToken_DeleteFail(c)
    \/ Expire

SpecToken == InitToken /\ [][NextToken]_vars

(***************************************************************************)
(* SaveFile: claims C1 to C3.                                              *)
(***************************************************************************)
\* C1: at every point of a SaveFile call, and after a crash at any step, the
\* target path holds what it held when the call started (or is absent as it
\* was) or the complete new content; until the rename it is what it was.
C1_SaveFileAtomic ==
    \A p \in Writers :
        /\ call[p].pc # "idle"
              => files[call[p].filepath] \in {prior[p], Full(call[p].content)}
        /\ call[p].pc # "idle" /\ call[p].renames = 0
              => files[call[p].filepath] = prior[p]

\* C1 witness: the process died in the middle of the temporary write, the
\* temporary file holds a proper, non-empty part of the content, and the
\* target still holds its other, earlier content.
C1_Witness ==
    \E p \in Writers :
        /\ call[p].pc = "crashed"
        /\ files[TempPath(call[p])].exists
        /\ Len(files[TempPath(call[p])].data) \in 1..(Len(call[p].content) - 1)
        /\ prior[p].exists
        /\ prior[p].data # call[p].content
        /\ files[call[p].filepath] = prior[p]

\* C2: when SaveFile has returned nil, the target path holds exactly content.
C2_SuccessReadsContent ==
    \A p \in Writers :
        call[p].pc = "done" /\ call[p].err = "nil"
            => files[call[p].filepath] = Full(call[p].content)

\* C2 witness: SaveFile returned nil after replacing other, earlier content
\* by a content of two bytes.
C2_Witness ==
    \E p \in Writers :
        /\ call[p].pc = "done" /\ call[p].err = "nil"
        /\ prior[p].exists /\ prior[p].data # call[p].content
        /\ Len(call[p].content) = 2
        /\ files[call[p].filepath].data = call[p].content

\* C3: when rand.Read or ioutil.WriteFile failed, SaveFile returns that error,
\* has made no rename, and the target path holds what it held before.
C3_WriteFailureLeavesTarget ==
    \A p \in Writers :
        call[p].pc = "done" /\ call[p].failed \in {"rand", "write"}
            => /\ call[p].err = call[p].failed
               /\ call[p].renames = 0
               /\ files[call[p].filepath] = prior[p]

\* C3 witness: the temporary write failed half way, over an existing target.
C3_Witness ==
    \E p \in Writers :
        /\ call[p].pc = "done" /\ call[p].failed = "write" /\ call[p].err = "write"
        /\ files[TempPath(call[p])].exists
        /\ Len(files[TempPath(call[p])].data) \in 1..(Len(call[p].content) - 1)
        /\ prior[p].exists
        /\ files[call[p].filepath] = prior[p]


(***************************************************************************)
(* Log entries: claims C4 to C10.                                          *)
(***************************************************************************)
\* C4: once the first SessionRequest() call on an entry has succeeded, every
\* later SessionRequest() call returns no error and the very same request
\* object (the same address).
C4_SameInstance ==
    ret.op = "SessionRequest" /\ first.called /\ first.err = "nil"
        => ret.err = "nil" /\ ret.req = first.req

\* C4 witness: a later call on an entry read from storage returned the
\* object that the first call had allocated and filled.
C4_Witness ==
    /\ origin = "stored"
    /\ ret.op = "SessionRequest" /\ ret.hit /\ ret.err = "nil"
    /\ first.called /\ first.err = "nil" /\ first.req # 0
    /\ ret.req = first.req
    /\ heap[ret.req].content = <<1, 2>>

\* C5: when the cache slot is filled, SessionRequest() returns the cached
\* object, does not call json.Unmarshal and does not change the object
\* (stated for the entries createLogEntry makes from a valid combination,
\* whose slot holds the session's request).
C5_CachedNoReparse ==
    ret.op = "SessionRequest" /\ ret.hit /\ origin = "created" /\ orig.valid
        => /\ ret.err = "nil"
           /\ ret.req = entry.request
           /\ ~ret.decoded
           /\ ~ret.modified

\* Whether json.Unmarshal of data into a fresh request of the shape fails.
Undecodable(data, shape) == Unmarshal(data, ZeroRequest(shape)).err # "nil"

\* C6: when SessionRequest() is called with an empty cache slot on a
\* disclosing, signing or issuing entry whose Request cannot be decoded, it
\* returns the decode error and no request, and the slot is still empty.
C6_DecodeFailureCachesNothing ==
    /\ ret.op = "SessionRequest" /\ ~ret.hit
    /\ RequestFor(entry.Type) # ""
    /\ Undecodable(entry.Request, RequestFor(entry.Type))
    => /\ ret.err \in {"syntax", "type"}
       /\ ret.req = 0
       /\ entry.request = 0

\* C7: for an entry that createLogEntry made from a valid combination of
\* kind, request and response, SessionRequest() returns no error and a request
\* whose disjunctions are those of the original request (no request where the
\* session had none).
C7_RoundTrip ==
    ret.op = "SessionRequest" /\ origin = "created" /\ orig.valid
        => /\ ret.err = "nil"
           /\ IF orig.nilreq THEN ret.req = 0
              ELSE ret.req # 0 /\ ToDisclose(heap[ret.req]) = ToDisclose(orig.req)

\* C7 witness: an issuing entry made from a request with two disjunctions.
C7_Witness ==
    /\ ret.op = "SessionRequest" /\ origin = "created" /\ orig.valid
    /\ entry.Type = ActionIssuing
    /\ ~orig.nilreq /\ ToDisclose(orig.req) = <<2, 1>>
    /\ ret.req # 0 /\ ToDisclose(heap[ret.req]) = <<2, 1>>

\* C8: on a removal entry, whatever else it holds, GetDisclosedCredentials and
\* GetIssuedCredentials return an empty list and GetSignedMessage returns
\* nothing, each without an error.
C8_RemovalViewsEmpty ==
    origin # "none" /\ entry.Type = actionRemoval
        => /\ ret.op \in {"GetDisclosedCredentials", "GetIssuedCredentials"}
                => ret.err = "nil" /\ ret.list = <<>>
           /\ ret.op = "GetSignedMessage"
                => ret.err = "nil" /\ ~ret.signed.present

\* C8 witness: GetDisclosedCredentials on a stored removal entry that holds
\* the request and the payloads of the other kinds too.
C8_Witness ==
    /\ origin = "stored" /\ entry.Type = actionRemoval
    /\ entry.Request = Encode(d1)
    /\ ~entry.Disclosure.nil /\ ~entry.IssueCommitment.nil
    /\ entry.SignedMessage # <<>>
    /\ ret.op = "GetDisclosedCredentials" /\ ret.err = "nil" /\ ret.list = <<>>

\* C9: for a signing entry made by createLogEntry, GetSignedMessage returns
\* the message, nonce and context of the original signature request, and the
\* timestamp and context tag stored in the entry.
C9_SignedMessageExact ==
    ret.op = "GetSignedMessage" /\ origin = "created" /\ entry.Type = ActionSigning
        => /\ ret.err = "nil" /\ ret.signed.present
           /\ ret.signed.Message = orig.req.message
           /\ ret.signed.Nonce = orig.req.nonce
           /\ ret.signed.Context = orig.req.context
           /\ ret.signed.Timestamp = entry.Timestamp
           /\ ret.signed.LDContext = entry.SignedMessageLDContext

\* C9 witness: a signed message whose nonce and context differ.
C9_Witness ==
    /\ ret.op = "GetSignedMessage" /\ origin = "created" /\ entry.Type = ActionSigning
    /\ ret.signed.present
    /\ ret.signed.Message = "m" /\ orig.req.message = "m"
    /\ ret.signed.Nonce = 1 /\ ret.signed.Context = 2
    /\ ret.signed.Timestamp = 1
    /\ ret.signed.LDContext = SignedMessageLDContext

\* C10: an entry that createLogEntry returned (for a valid combination) holds
\* Request bytes if and only if it is not a removal.
C10_RequestIffNotRemoval ==
    origin = "created" /\ orig.valid
        => ((entry.Request # <<>>) <=> (entry.Type # actionRemoval))


(***************************************************************************)
(* Log entries: claims C11 and C16 to C18.                                 *)
(***************************************************************************)
\* C11: when createLogEntry is called on a session whose Action is none of
\* disclosing, signing, issuing and removal, it returns an error (and does not
\* panic) and no entry.
C11_UnknownKindRejected ==
    ret.op = "createLogEntry"
    /\ ret.kind \notin {ActionDisclosing, ActionSigning, ActionIssuing, actionRemoval}
    => /\ ret.err \notin {"nil", "panic"}
       /\ origin = "none"
       /\ entry = ZeroEntry

\* C11 witness: createLogEntry on an "unknown" session went through
\* setSessionRequest and returned "Invalid log type".
C11_Witness ==
    /\ ret.op = "createLogEntry" /\ ret.kind = ActionUnknown
    /\ ret.err = "invalid"
    /\ origin = "none" /\ entry = ZeroEntry


\* C16: when the cache slot is filled, the request in it encodes to the bytes
\* of Request (stated for the entries createLogEntry made from a valid
\* combination and for the state after a SessionRequest() call that returned
\* an error).
C16_CacheMatchesRaw ==
    /\ origin # "none" /\ entry.request # 0
    /\ \/ origin = "created" /\ orig.valid
       \/ ret.op = "SessionRequest" /\ ret.err # "nil"
    => Encode(heap[entry.request]) = entry.Request

\* C17: on an entry whose Type is none of disclosing, signing, issuing and
\* removal, GetDisclosedCredentials, GetIssuedCredentials and GetSignedMessage
\* return an error: none returns a result without error, none panics.
C17_ViewsRejectUnknown ==
    /\ origin # "none"
    /\ entry.Type \notin {ActionDisclosing, ActionSigning, ActionIssuing, actionRemoval}
    /\ ret.op \in {"GetDisclosedCredentials", "GetIssuedCredentials", "GetSignedMessage"}
    => ret.err \notin {"nil", "panic"}

\* C18: an entry that createLogEntry returned (for a valid combination) holds
\* the payload of its kind and no other: disclosing, the Disclosure and no
\* IssueCommitment; signing, the Disclosure and the request's message and
\* timestamp and the context tag; issuing, the IssueCommitment and no
\* Disclosure; removal, the Removed mapping and neither of the two.
C18_PayloadMatchesKind ==
    origin = "created" /\ orig.valid
        => /\ entry.Type = ActionDisclosing
                 => ~entry.Disclosure.nil /\ entry.IssueCommitment.nil
           /\ entry.Type = ActionSigning
                 => /\ ~entry.Disclosure.nil
                    /\ entry.SignedMessage = BytesOf(orig.req.message)
                    /\ entry.Timestamp = orig.req.timestamp
                    /\ entry.SignedMessageLDContext = SignedMessageLDContext
           /\ entry.Type = ActionIssuing
                 => ~entry.IssueCommitment.nil /\ entry.Disclosure.nil
           /\ entry.Type = actionRemoval
                 => /\ entry.Removed # 0
                    /\ entry.Disclosure.nil /\ entry.IssueCommitment.nil

(***************************************************************************)
(* SaveFile: claims C12 and C15.                                           *)
(***************************************************************************)
\* The calls that have started on the target of call p.
Started(p) ==
    {q \in Writers : call[q].pc # "idle" /\ call[q].filepath = call[p].filepath}

\* The calls whose os.Rename onto the target of call p succeeded.
Renamed(p) == {q \in Started(p) : call[q].pc = "done" /\ call[q].err = "nil"}

\* C12: with SaveFile calls on one target running at the same time, a call
\* that meets no file system error returns nil after one rename; the target
\* holds the complete content of the call whose rename came last; and at
\* every point the target holds what it held before the calls or the complete
\* content of a call whose rename succeeded, never anything else.
C12_ConcurrentLastWins ==
    \A p \in Writers :
        /\ call[p].pc = "done" /\ call[p].failed = "none"
              => call[p].err = "nil" /\ call[p].renames = 1
        /\ call[p].last => files[call[p].filepath] = Full(call[p].content)
        /\ call[p].pc # "idle"
              => /\ files[call[p].filepath] \in
                       {prior[q] : q \in Started(p)}
                           \cup {Full(call[q].content) : q \in Renamed(p)}
                 /\ Renamed(p) # {} => \E q \in Renamed(p) : call[q].last

\* C12 witness: both calls returned nil; writer 2 started before the rename
\* of writer 1 and renamed after it; the target holds the content of writer
\* 2, which is not the content of writer 1.
C12_Witness ==
    /\ call[1].pc = "done" /\ call[1].err = "nil" /\ ~call[1].last
    /\ call[2].pc = "done" /\ call[2].err = "nil" /\ call[2].last
    /\ call[1].filepath = call[2].filepath
    /\ Len(call[1].content) = 2 /\ Len(call[2].content) = 2
    /\ call[1].content # call[2].content
    /\ prior[2] = prior[1] /\ prior[2] # Full(call[1].content)
    /\ files[call[2].filepath] = Full(call[2].content)


\* Whether one of the files that SaveFile calls left behind: a temporary
\* path that holds a file and is not the temporary path of a running call.
Orphan(x) ==
    /\ x[2] \in TempNames
    /\ files[x].exists
    /\ \A q \in Writers : call[q].pc \in Named => TempPath(call[q]) # x

\* C15: when a SaveFile call has returned, its temporary file is there if and
\* only if the call created it and then failed (in the write or in the
\* rename); after a call that returned nil the temporary name is gone; and no
\* step of any call changes or removes a file that was left behind.
C15_OrphanedTemp ==
    /\ [](\A p \in Writers :
             call[p].pc = "done" /\ call[p].failed # "rand"
                 => /\ files[TempPath(call[p])].exists
                          <=> (call[p].created /\ call[p].err # "nil")
                    /\ call[p].err = "nil" => call[p].created)
    /\ [][\A x \in AllPaths : Orphan(x) => files'[x] = files[x]]_vars

\* C15 witness: a call returned nil while the complete temporary file of an
\* earlier call, whose rename failed, is still in the directory.
C15_Witness ==
    \E p \in Writers, x \in AllPaths :
        /\ call[p].pc = "done" /\ call[p].err = "nil"
        /\ x # TempPath(call[p]) /\ Orphan(x)
        /\ Len(files[x].data) = 2
        /\ ~files[TempPath(call[p])].exists

(***************************************************************************)
(* PathExists and its companions: claims C13 and C14.                      *)
(***************************************************************************)
\* Whether the path was there before the last call.
Present == probe.before[probe.path].kind # "absent"

\* Whether the path could not be looked at before the last call: one of the
\* directories above it cannot be searched.
Hidden ==
    \E q \in Ancestors(probe.path) :
        probe.before[q].kind = "dir" /\ probe.before[q].perm = "---"

\* C13: PathExists returns (true, nil) when the path is there and can be
\* looked at, (false, nil) only when the path is not there, (true, nil) only
\* when it is there, and an error when the path cannot be looked at;
\* AssertPathExists returns nil only when the path is there and can be looked
\* at, and an error when it is not there as well as when it cannot be looked
\* at.
C13_PathExistsTristate ==
    /\ probe.op = "PathExists"
          => /\ Present /\ ~Hidden => probe.exist /\ probe.err = "nil"
             /\ ~probe.exist /\ probe.err = "nil" => ~Present /\ ~Hidden
             /\ probe.exist /\ probe.err = "nil" => Present /\ ~Hidden
             /\ Hidden => probe.err # "nil"
    /\ probe.op = "AssertPathExists"
          => /\ probe.err = "nil" => Present /\ ~Hidden
             /\ ~Present => probe.err # "nil"
             /\ Hidden => probe.err # "nil"

\* C13 witness: PathExists on a/b/c, which is there, under a directory that
\* cannot be searched, returned an error.
C13_Witness ==
    /\ probe.op = "PathExists" /\ probe.path = Chain
    /\ Present /\ Hidden
    /\ probe.err = "EACCES"

\* What os.Stat said of the path before the last call.
StatBefore == Stat(probe.before, probe.path)

\* C14 as stated: EnsureDirectoryExists returns nil and changes nothing when
\* the path is there; makes the directory when the path is not there; returns
\* nil and changes nothing when it is called again; and returns the error and
\* changes nothing when os.Stat could not tell.
C14_EnsureDirectoryCreates ==
    probe.op = "EnsureDirectoryExists"
        => /\ StatBefore = "nil" => probe.err = "nil" /\ tree = probe.before
           /\ StatBefore = "ENOENT"
                 => probe.err = "nil" /\ tree[probe.path].kind = "dir"
           /\ probe.again /\ probe.preverr = "nil"
                 => probe.err = "nil" /\ tree = probe.before
           /\ StatBefore \notin {"nil", "ENOENT"}
                 => probe.err = StatBefore /\ tree = probe.before

\* Whether os.Mkdir can make the path: its parent is there and can be
\* searched and written.
CanMkdir ==
    \/ Len(probe.path) = 1
    \/ probe.before[Parent(probe.path)] = DirNode("rwx")

\* C14, amended: as stated, but when the path is not there the directory is
\* made only if its parent is there and writable (nothing else changes);
\* otherwise EnsureDirectoryExists returns the error of os.Mkdir and changes
\* nothing, and so does every further call.
C14_EnsureDirectoryAmended ==
    probe.op = "EnsureDirectoryExists"
        => /\ StatBefore = "nil" => probe.err = "nil" /\ tree = probe.before
           /\ StatBefore = "ENOENT" /\ CanMkdir
                 => /\ probe.err = "nil"
                    /\ tree = [probe.before EXCEPT ![probe.path] = DirNode("rwx")]
           /\ StatBefore = "ENOENT" /\ ~CanMkdir
                 => probe.err \notin {"nil", "EEXIST"} /\ tree = probe.before
           /\ probe.again
                 => tree = probe.before /\ probe.err = probe.preverr
           /\ StatBefore \notin {"nil", "ENOENT"}
                 => probe.err = StatBefore /\ tree = probe.before

\* C14 witness: EnsureDirectoryExists on a/b was called again after a call
\* that made the directory, returned nil and changed nothing.
C14_Witness ==
    /\ probe.op = "EnsureDirectoryExists" /\ probe.path = <<"a", "b">>
    /\ probe.again /\ probe.made
    /\ probe.err = "nil"
    /\ tree = probe.before /\ tree[probe.path] = DirNode("rwx")

(***************************************************************************)
(* TryUserLoginToken: claim C19.                                           *)
(***************************************************************************)
\* C19: of the TryUserLoginToken calls with one token, however their
\* statements interleave, at most one returns true.
C19_TokenSingleUse ==
    Cardinality({c \in Callers : login[c].pc = "done" /\ login[c].val}) <= 1

\* C19 witness: two calls found the token's row before either deleted it;
\* one deleted the row and returned true, the other deleted nothing and
\* returned false.
C19_Witness ==
    \E c, d \in Callers :
        /\ login[c].pc = "done" /\ login[c].val /\ login[c].aff = 1
        /\ login[d].pc = "done" /\ ~login[d].val /\ login[d].err = "nil"
        /\ login[d].aff = 0
        /\ login[c].username = login[d].username

=============================================================================
